---- MODULE Spec2Model ----
(***************************************************************************)
(* State-snapshot subsystem of fuel-core's chain-config crate:             *)
(* Group chunking, the StateWriter / StateReader pair over the two format  *)
(* back-ends (json, parquet), and the StateConfig aggregate                *)
(* (crates/chain-config/src/config/state.rs).                              *)
(*                                                                         *)
(* state.rs declares `mod reader`, `mod writer` and `mod parquet`; their   *)
(* behaviour is taken from the design document (sections 4.1 - 4.4, 7) and *)
(* from the way the round-trip tests of state.rs call them.                *)
(***************************************************************************)
EXTENDS Integers, Sequences, FiniteSets, TLC

(***************************************************************************)
(* Bounds of the model.                                                    *)
(***************************************************************************)
\* total number of records one StateWriter is given
MaxRecords == 3
\* total number of write_* calls accepted by one StateWriter
MaxWrites == 2
\* largest finite read-side group size a StateReader is opened with
MaxGroupSize == 2
\* largest group size G that chunk is called with on up to 2*G+3 records
MaxChunkSize == 4
\* total number of records in the three StateConfig values given to extend
MaxExtendRecords == 3
\* Categories of one snapshot that are damaged or removed.
MaxDamaged == 2
\* total number of items the five iterators of a ChainStateDb hold
MaxDbItems == 4
\* largest transaction id and output index of a UtxoId given to initial_coin
MaxTxId == 2
MaxOutputIndex == 2
\* largest DA block height: of a call, of a lag, of the relayer
MaxDaHeight == 3

(***************************************************************************)
(* Program constants.                                                      *)
(***************************************************************************)
\* pub const MAX_GROUP_SIZE: usize = usize::MAX; every sequence of the model
\* is shorter, which is all the code uses of the value.
MAX_GROUP_SIZE == 2147483647

\* The five entity categories, in the order of the fields of StateConfig.
CategoryOrder ==
    <<"coins", "messages", "contracts", "contract_state", "contract_balance">>

Category == {CategoryOrder[i] : i \in 1..Len(CategoryOrder)}

\* The two format back-ends.
Encoding == {"json", "parquet"}

\* Entity records are opaque values to this layer; a record is named by the
\* number of the draw of T::randomize that made it.
Records == 1..MaxRecords

None == [tag |-> "None"]
Missing == [tag |-> "Missing"]
Some(v) == [tag |-> "Some", value |-> v]

(***************************************************************************)
(* Sequences of bounded length.                                            *)
(***************************************************************************)
SeqUpTo(S, n) == UNION {[1..k -> S] : k \in 0..n}

RECURSIVE Flatten(_)
\* Concatenation of a sequence of sequences, in order.
Flatten(ss) == IF ss = <<>> THEN <<>> ELSE Head(ss) \o Flatten(Tail(ss))

(***************************************************************************)
(* Group<T> and chunking                                                   *)
(***************************************************************************)
Group(index, data) == [index |-> index, data |-> data]

RECURSIVE chunks(_, _)
\* Itertools::chunks(size): consecutive runs of `size` items, the last run
\* holding what is left; nothing for an exhausted input.
chunks(items, size) ==
    IF items = <<>> THEN <<>>
    ELSE IF Len(items) <= size THEN <<items>>
    ELSE <<SubSeq(items, 1, size)>>
             \o chunks(SubSeq(items, size + 1, Len(items)), size)

\* enumerate counting from one.
enumerate_from_one(runs) == [i \in 1..Len(runs) |-> Group(i, runs[i])]

\* .enumerate().map(|(index, data)| Group { index, data })
enumerate_groups(runs) == [i \in 1..Len(runs) |-> Group(i - 1, runs[i])]

\* chunk as chunks_exact would make it: a trailing run shorter than max_size
\* is dropped.
chunk_exact(records, max_size) ==
    enumerate_groups(SelectSeq(chunks(records, max_size),
                               LAMBDA run : Len(run) = max_size))

\* chunk that makes one empty group out of an empty input.
chunk_keep_empty(records, max_size) ==
    IF records = <<>> THEN <<Group(0, <<>>)>>
    ELSE enumerate_groups(chunks(records, max_size))

\* chunk(records, max_size): .chunks(max_size) ... .enumerate().map(Group)
chunk(records, max_size) == enumerate_groups(chunks(records, max_size))

(***************************************************************************)
(* StateConfig                                                             *)
(***************************************************************************)
\* #[derive(Default)] StateConfig: five empty collections.
StateConfigDefault == [c \in Category |-> <<>>]

\* extend that puts each record of other in front of self's (insert(0, x)).
RECURSIVE insert_front(_, _)
insert_front(mine, theirs) ==
    IF theirs = <<>> THEN mine
    ELSE insert_front(<<Head(theirs)>> \o mine, Tail(theirs))

extend_insert_front(self, other) ==
    [category \in Category |-> insert_front(self[category], other[category])]

\* extend that appends other's contract_state to both contract collections.
extend_crossed(self, other) ==
    [coins |-> self.coins \o other.coins,
     messages |-> self.messages \o other.messages,
     contracts |-> self.contracts \o other.contracts,
     contract_state |-> self.contract_state \o other.contract_state,
     contract_balance |-> self.contract_balance \o other.contract_state]

\* StateConfig::extend(&mut self, other): the value of self afterwards.
extend(self, other) ==
    [coins |-> self.coins \o other.coins,
     messages |-> self.messages \o other.messages,
     contracts |-> self.contracts \o other.contracts,
     contract_state |-> self.contract_state \o other.contract_state,
     contract_balance |-> self.contract_balance \o other.contract_balance]

(***************************************************************************)
(* State                                                                   *)
(***************************************************************************)
VARIABLES
    writer,     \* per snapshot directory: "none", "open" or "closed" StateWriter
    encoded,    \* per directory and category: the back-end's accumulated groups
    snapshot,   \* per directory: None, or the finalized content left by close()
    written,    \* per directory and category: the batches accepted by write_*
    result,     \* what the last call returned
    reader,     \* None, or the StateReader last constructed
    stream,     \* None, or the group sequence last taken from the reader
    source,     \* the StateConfig exported to both formats
    materialized, \* per directory: None, or the StateConfig read back from it
    args,       \* the arguments of a call of chunk, extend, ...
    ret,        \* what the call returned; None before it
    damage,     \* per directory and category: None, or where the stored
                \* data of a finalized snapshot became unreadable
    earlier,    \* None, or a group sequence the caller kept when it took
                \* another from the reader
    relayer     \* None, or the relayer behind a MaybeRelayerAdapter

vars ==
    <<writer, encoded, snapshot, written, result, reader, stream, source,
      materialized, args, ret, damage, earlier, relayer>>

\* What the calls on writers and readers leave alone.
callVars == <<args, ret, damage, earlier, relayer>>

Ok(v) == [tag |-> "Ok", value |-> v]
Err(e) == [tag |-> "Err", error |-> e]

RECURSIVE SumLen(_)
SumLen(ss) == IF ss = <<>> THEN 0 ELSE Len(Head(ss)) + SumLen(Tail(ss))

\* Number of write_* calls a writer has accepted, and of records in them.
CallsOf(d) == SumLen([i \in 1..Len(CategoryOrder) |-> written[d][CategoryOrder[i]]])
RecordsOf(d) ==
    SumLen([i \in 1..Len(CategoryOrder) |-> Flatten(written[d][CategoryOrder[i]])])

(***************************************************************************)
(* Format back-end, write side                                             *)
(***************************************************************************)
\* encode that appends whatever index the group carries.
encode_unchecked(output, group) == Ok(Append(output, group.data))

\* encode(group): append the group's records to the accumulating output of
\* one entity type. A group is stored as one self-delimited unit (a text
\* record, a row group); its index is its position, and is not stored.
encode(output, group) ==
    IF group.index < Len(output)
    THEN Err("OutOfOrderGroup")
    ELSE Ok(Append(output, group.data))

RECURSIVE encode_all(_, _)
encode_all(output, groups) ==
    IF groups = <<>> THEN Ok(output)
    ELSE LET r == encode(output, Head(groups))
         IN  IF r.tag = "Err" THEN r ELSE encode_all(r.value, Tail(groups))

\* A flat batch is chunked at the configured maximum group size and numbered
\* on from the groups the category already holds.
batch_groups(output, elements) ==
    LET gs == chunk(elements, MAX_GROUP_SIZE)
    IN  [i \in 1..Len(gs) |-> Group(Len(output) + gs[i].index, gs[i].data)]

(***************************************************************************)
(* StateWriter                                                             *)
(***************************************************************************)
\* write_* that does not look at whether the writer was closed.
write_unchecked(d, category, elements) ==
    /\ writer[d] # "none"
    /\ encoded' = [encoded EXCEPT ![d][category] = Append(@, elements)]
    /\ written' = [written EXCEPT ![d][category] = Append(@, elements)]
    /\ result' = [op |-> "write", dir |-> d, res |-> Ok(<<>>)]
    /\ UNCHANGED <<writer, snapshot, reader, stream, materialized, callVars>>

\* write_coins / write_messages / ... (elements: Vec<T>) -> Result<()>
write(d, category, elements) ==
    /\ writer[d] # "none"
    /\ IF writer[d] = "closed"
       THEN /\ result' = [op |-> "write", dir |-> d, res |-> Err("WriterClosed")]
            /\ UNCHANGED <<encoded, written>>
       ELSE LET r == encode_all(encoded[d][category],
                                batch_groups(encoded[d][category], elements))
            IN  IF r.tag = "Err"
                THEN /\ result' = [op |-> "write", dir |-> d, res |-> r]
                     /\ UNCHANGED <<encoded, written>>
                ELSE /\ encoded' = [encoded EXCEPT ![d][category] = r.value]
                     /\ written' = [written EXCEPT
                                      ![d][category] = Append(@, elements)]
                     /\ result' = [op |-> "write", dir |-> d, res |-> Ok(<<>>)]
    /\ UNCHANGED <<writer, snapshot, reader, stream, materialized, callVars>>

write_coins(d, elements) ==
    write(d, "coins", elements) /\ UNCHANGED source
write_messages(d, elements) ==
    write(d, "messages", elements) /\ UNCHANGED source
write_contracts(d, elements) ==
    write(d, "contracts", elements) /\ UNCHANGED source
write_contract_state(d, elements) ==
    write(d, "contract_state", elements) /\ UNCHANGED source
write_contract_balance(d, elements) ==
    write(d, "contract_balance", elements) /\ UNCHANGED source

\* close(): flush what the back-end accumulated and finalize the snapshot.
close(d) ==
    /\ writer[d] = "open"
    /\ writer' = [writer EXCEPT ![d] = "closed"]
    /\ snapshot' = [snapshot EXCEPT ![d] = encoded[d]]
    /\ result' = [op |-> "close", dir |-> d, res |-> Ok(<<>>)]
    /\ UNCHANGED <<encoded, written, reader, stream, source, materialized, callVars>>

(***************************************************************************)
(* Format back-end, read side                                              *)
(***************************************************************************)
\* Columnar: one group per stored row group, numbered in read order.
decode_parquet(stored) == [i \in 1..Len(stored) |-> Ok(Group(i - 1, stored[i]))]

\* Text: the stored records of the category, chunked again at the reader's
\* group size and numbered in read order.
decode_json(stored, group_size) ==
    LET gs == chunk(Flatten(stored), group_size)
    IN  [i \in 1..Len(gs) |-> Ok(gs[i])]

\* Decoding that goes on behind a unit it could not read.
decode_resume_parquet(stored, at) ==
    LET gs == decode_parquet(stored)
    IN  [i \in 1..Len(gs) |-> IF i = at + 1 THEN Err("Malformed") ELSE gs[i]]

\* Columnar data whose stored units are readable up to the one numbered
\* `at` (from 0; `at` = the number of units when the closing footer is what
\* is missing): the row groups before it, then DecodeError::Malformed, and
\* the sequence ends.
decode_damaged_parquet(stored, at) ==
    Append(decode_parquet(SubSeq(stored, 1, at)), Err("Malformed"))

\* Text data readable up to the stored unit numbered `at`: the groups that
\* the records before it fill at the reader's group size, then
\* DecodeError::Malformed where the next group runs into the damage, and the
\* sequence ends.
decode_damaged_json(stored, group_size, at) ==
    LET records == Flatten(SubSeq(stored, 1, at))
        whole == (Len(records) \div group_size) * group_size
    IN  Append(decode_json(<<SubSeq(records, 1, whole)>>, group_size),
               Err("Malformed"))

(***************************************************************************)
(* StateReader                                                             *)
(***************************************************************************)
Reader(d, encoding, group_size) ==
    [tag |-> "Reader", dir |-> d, encoding |-> encoding, group_size |-> group_size]

\* The physical layout found at a location: that of the writer that finalized
\* it, nothing before close() has completed.
layout(d) == IF snapshot[d] = None THEN "missing" ELSE d

\* StateReader::json(path, group_size) -> Result<StateReader>
reader_json(d, group_size) ==
    IF layout(d) = "json" THEN Ok(Reader(d, "json", group_size))
    ELSE Err("ResourceNotFound")

\* StateReader::parquet(path) -> StateReader; the files are opened by the
\* accessors.
reader_parquet(d) == Ok(Reader(d, "parquet", 0))

\* StateReader::detect_encoding(path, default_group_size) -> Result<StateReader>
reader_detect_encoding(d, group_size_hint) ==
    CASE layout(d) = "json" -> reader_json(d, group_size_hint)
      [] layout(d) = "parquet" -> reader_parquet(d)
      [] OTHER -> Err("ResourceNotFound")

\* coins() / messages() / ... -> Result<sequence of Result<Group<T>>>
accessor(r, category) ==
    IF layout(r.dir) # r.encoding \/ damage[r.dir][category] = Missing
    THEN Err("ResourceNotFound")
    ELSE LET stored == snapshot[r.dir][category]
             at == damage[r.dir][category]
         IN  IF r.encoding = "parquet"
             THEN Ok(IF at = None THEN decode_parquet(stored)
                     ELSE decode_damaged_parquet(stored, at.value))
             ELSE Ok(IF at = None THEN decode_json(stored, r.group_size)
                     ELSE decode_damaged_json(stored, r.group_size, at.value))

(***************************************************************************)
(* StateConfig assembly                                                    *)
(***************************************************************************)
\* Collecting that stops after the first group.
flatten_ok_first_group(items) ==
    IF items = <<>> THEN Ok(<<>>)
    ELSE IF Head(items).tag = "Err" THEN Head(items)
    ELSE Ok(Head(items).value.data)

RECURSIVE flatten_ok(_)
\* .map_ok(|group| group.data).flatten_ok().try_collect(): the records of
\* the groups in order, or the first error item.
flatten_ok(items) ==
    IF items = <<>> THEN Ok(<<>>)
    ELSE IF Head(items).tag = "Err" THEN Head(items)
    ELSE LET rest == flatten_ok(Tail(items))
         IN  IF rest.tag = "Err" THEN rest
             ELSE Ok(Head(items).value.data \o rest.value)

\* One category of from_reader: reader.<category>()? ... .try_collect()?
collect_category(r, category) ==
    LET opened == accessor(r, category)
    IN  IF opened.tag = "Err" THEN opened ELSE flatten_ok(opened.value)

RECURSIVE from_reader_skipping(_, _)
\* Assembly that leaves a category empty when it cannot be read, and goes on.
from_reader_skipping(r, n) ==
    IF n = 0 THEN Ok(StateConfigDefault)
    ELSE LET before == from_reader_skipping(r, n - 1)
             got == collect_category(r, CategoryOrder[n])
         IN  IF got.tag = "Err" THEN before
             ELSE Ok([before.value EXCEPT ![CategoryOrder[n]] = got.value])

RECURSIVE from_reader_upto(_, _)
\* The first n categories of from_reader, in field order: the collections
\* read so far, or the first error.
from_reader_upto(r, n) ==
    IF n = 0 THEN Ok(StateConfigDefault)
    ELSE LET before == from_reader_upto(r, n - 1)
         IN  IF before.tag = "Err" THEN before
             ELSE LET got == collect_category(r, CategoryOrder[n])
                  IN  IF got.tag = "Err" THEN got
                      ELSE Ok([before.value EXCEPT ![CategoryOrder[n]] = got.value])

\* StateConfig::from_reader(reader) -> Result<StateConfig>
from_reader(r) == from_reader_upto(r, Len(CategoryOrder))

RECURSIVE opened_upto(_, _)
\* The categories the first n statements of from_reader open: a statement
\* is reached when `?` has returned from none before it.
opened_upto(r, n) ==
    IF n = 0 THEN <<>>
    ELSE IF from_reader_upto(r, n - 1).tag = "Err" THEN opened_upto(r, n - 1)
    ELSE Append(opened_upto(r, n - 1), CategoryOrder[n])

\* StateConfig::load_from_snapshot(path) -> Result<StateConfig>
load_from_snapshot(d) ==
    LET r == reader_detect_encoding(d, 1)
    IN  IF r.tag = "Err" THEN r ELSE from_reader(r.value)

(***************************************************************************)
(* Calls on a StateReader                                                  *)
(***************************************************************************)
\* A constructor's outcome; the reader built replaces the one held before,
\* and the group sequence taken from that one goes with it.
Construct(op, d, r) ==
    /\ result' = [op |-> op, dir |-> d,
                  res |-> IF r.tag = "Err" THEN r ELSE Ok(<<>>)]
    /\ reader' = IF r.tag = "Err" THEN reader ELSE r.value
    /\ stream' = IF r.tag = "Err" THEN stream ELSE None
    /\ UNCHANGED <<writer, encoded, snapshot, written, source, materialized, callVars>>

StateReader_json(d, group_size) ==
    /\ writer[d] # "none"
    /\ Construct("json", d, reader_json(d, group_size))

StateReader_parquet(d) ==
    /\ writer[d] # "none"
    /\ Construct("parquet", d, reader_parquet(d))

StateReader_detect_encoding(d, group_size_hint) ==
    /\ writer[d] # "none"
    /\ Construct("detect_encoding", d, reader_detect_encoding(d, group_size_hint))

\* An accessor that goes on where the sequence taken before had got to.
open_resumed(category) ==
    /\ reader # None
    /\ LET opened == accessor(reader, category)
       IN  /\ result' = [op |-> "accessor", dir |-> reader.dir,
                         res |-> IF opened.tag = "Err" THEN opened ELSE Ok(<<>>)]
           /\ stream' = IF opened.tag = "Err" THEN stream
                        ELSE [tag |-> "IntoIter", category |-> category,
                              items |-> opened.value,
                              pos |-> IF stream = None THEN 0 ELSE stream.pos,
                              ended |-> FALSE]
    /\ UNCHANGED <<writer, encoded, snapshot, written, reader, source,
                   materialized, args, ret, damage, relayer>>

\* reader.coins() etc.: a new group sequence, nothing pulled from it yet.
open(category) ==
    /\ reader # None
    /\ LET opened == accessor(reader, category)
       IN  /\ result' = [op |-> "accessor", dir |-> reader.dir,
                         res |-> IF opened.tag = "Err" THEN opened ELSE Ok(<<>>)]
           /\ stream' = IF opened.tag = "Err" THEN stream
                        ELSE [tag |-> "IntoIter", category |-> category,
                              items |-> opened.value, pos |-> 0, ended |-> FALSE]
    /\ UNCHANGED <<writer, encoded, snapshot, written, reader, source,
                   materialized, args, ret, damage, relayer>>

\* ... the caller dropping the sequence it took before.
Accessor(category) == open(category) /\ UNCHANGED earlier

coins == Accessor("coins")
messages == Accessor("messages")
contracts == Accessor("contracts")
contract_state == Accessor("contract_state")
contract_balance == Accessor("contract_balance")

\* Iterator::next on the group sequence: the next item, or the end.
IntoIter_next ==
    /\ stream # None
    /\ ~stream.ended
    /\ IF stream.pos < Len(stream.items)
       THEN /\ stream' = [stream EXCEPT !.pos = @ + 1]
            /\ result' = [op |-> "next", dir |-> reader.dir,
                          res |-> stream.items[stream.pos + 1]]
       ELSE /\ stream' = [stream EXCEPT !.ended = TRUE]
            /\ result' = [op |-> "next", dir |-> reader.dir, res |-> None]
    /\ UNCHANGED <<writer, encoded, snapshot, written, reader, source,
                   materialized, callVars>>

\* StateConfig::from_reader(reader): the reader is moved into the call.
FromReader ==
    /\ reader # None
    /\ result' = [op |-> "from_reader", dir |-> reader.dir,
                  res |-> from_reader(reader)]
    /\ reader' = None
    /\ stream' = None
    /\ UNCHANGED <<writer, encoded, snapshot, written, source, materialized, callVars>>

\* StateConfig::load_from_snapshot(path)
LoadFromSnapshot(d) ==
    /\ writer[d] # "none"
    /\ result' = [op |-> "load_from_snapshot", dir |-> d,
                  res |-> load_from_snapshot(d)]
    /\ UNCHANGED <<writer, encoded, snapshot, written, reader, stream, source,
                   materialized, callVars>>

(***************************************************************************)
(* One snapshot directory, written by one StateWriter and read back        *)
(***************************************************************************)
NoGroups == [d \in Encoding |-> [c \in Category |-> <<>>]]
NoDamage == [d \in Encoding |-> [c \in Category |-> None]]

\* StateWriter::json(path) or StateWriter::parquet(path, compression)
Init ==
    /\ \E e \in Encoding :
           writer = [d \in Encoding |-> IF d = e THEN "open" ELSE "none"]
    /\ encoded = NoGroups
    /\ written = NoGroups
    /\ snapshot = [d \in Encoding |-> None]
    /\ result = None
    /\ reader = None
    /\ stream = None
    /\ source = StateConfigDefault
    /\ materialized = [d \in Encoding |-> None]
    /\ args = None
    /\ ret = None
    /\ damage = NoDamage
    /\ earlier = None
    /\ relayer = None

\* A batch of n records drawn from the generator of a category behind the
\* writer of d (repeat_with(|| T::randomize(&mut self.rand))): records of the
\* category's type, none of them drawn before.
fresh(d, category, n) ==
    [i \in 1..n |-> <<category, Len(Flatten(written[d][category])) + i>>]

\* The calls the model gives a writer: MaxWrites accepted batches holding
\* MaxRecords records in all; a closed writer is offered the same batches
\* and refuses them.
BatchLens(d) == 0..(MaxRecords - RecordsOf(d))
InBudget(d) == writer[d] = "closed" \/ CallsOf(d) < MaxWrites
GroupSizes == (1..MaxGroupSize) \cup {MAX_GROUP_SIZE}

Next ==
    \/ \E d \in Encoding : InBudget(d) /\ \E n \in BatchLens(d) :
          write_coins(d, fresh(d, "coins", n))
    \/ \E d \in Encoding : InBudget(d) /\ \E n \in BatchLens(d) :
          write_messages(d, fresh(d, "messages", n))
    \/ \E d \in Encoding : InBudget(d) /\ \E n \in BatchLens(d) :
          write_contracts(d, fresh(d, "contracts", n))
    \/ \E d \in Encoding : InBudget(d) /\ \E n \in BatchLens(d) :
          write_contract_state(d, fresh(d, "contract_state", n))
    \/ \E d \in Encoding : InBudget(d) /\ \E n \in BatchLens(d) :
          write_contract_balance(d, fresh(d, "contract_balance", n))
    \/ \E d \in Encoding : close(d)
    \/ \E d \in Encoding, g \in GroupSizes : StateReader_json(d, g)
    \/ \E d \in Encoding : StateReader_parquet(d)
    \/ \E d \in Encoding, g \in GroupSizes : StateReader_detect_encoding(d, g)
    \/ coins
    \/ messages
    \/ contracts
    \/ contract_state
    \/ contract_balance
    \/ IntoIter_next
    \/ FromReader
    \/ \E d \in Encoding : LoadFromSnapshot(d)

Spec == Init /\ [][Next]_vars

(***************************************************************************)
(* Calls of chunk on their own                                             *)
(***************************************************************************)
\* No writer, no reader.
Idle ==
    /\ writer = [d \in Encoding |-> "none"]
    /\ encoded = NoGroups
    /\ written = NoGroups
    /\ snapshot = [d \in Encoding |-> None]
    /\ result = None
    /\ reader = None
    /\ stream = None
    /\ source = StateConfigDefault
    /\ materialized = [d \in Encoding |-> None]
    /\ damage = NoDamage
    /\ earlier = None
    /\ relayer = None

\* The first n records of a generator.
drawn(n) == [i \in 1..n |-> i]

\* The seeded scenario: 250 coin records at group size 100.
Scenario == [records |-> 250, max_size |-> 100]

ChunkLens == 0..(2 * MaxChunkSize + 3)
ChunkSizes == (1..MaxChunkSize) \cup {MAX_GROUP_SIZE}
ChunkInputs ==
    {[records |-> n, max_size |-> g] : n \in ChunkLens, g \in ChunkSizes}
        \cup {Scenario}

InitChunk ==
    /\ Idle
    /\ \E in \in ChunkInputs :
           args = [op |-> "chunk", records |-> drawn(in.records),
                   max_size |-> in.max_size]
    /\ ret = None

Chunk ==
    /\ args # None
    /\ args.op = "chunk"
    /\ ret = None
    /\ ret' = Some(chunk(args.records, args.max_size))
    /\ UNCHANGED <<writer, encoded, snapshot, written, result, reader, stream,
                   source, materialized, args, damage, earlier, relayer>>

NextChunk == Chunk

SpecChunk == InitChunk /\ [][NextChunk]_vars

(***************************************************************************)
(* Calls of extend on their own                                            *)
(***************************************************************************)
ConfigNames == <<"a", "b", "c">>

\* The collections of the three values, numbered: value by value, and in
\* field order within a value.
Slots == 1..(Len(ConfigNames) * Len(CategoryOrder))
SlotOf(k, category) ==
    (k - 1) * Len(CategoryOrder)
        + CHOOSE i \in 1..Len(CategoryOrder) : CategoryOrder[i] = category

\* A placement of up to MaxExtendRecords records: the collection each goes to.
IsSorted(p) == \A i \in 1..(Len(p) - 1) : p[i] <= p[i + 1]
Placements == {p \in SeqUpTo(Slots, MaxExtendRecords) : IsSorted(p)}

\* The k-th StateConfig of a placement; a record tells the value and the
\* collection it was made for and its place there.
ConfigOf(p, k) ==
    [category \in Category |->
        LET n == Cardinality({i \in 1..Len(p) : p[i] = SlotOf(k, category)})
        IN  [j \in 1..n |-> [of |-> ConfigNames[k], category |-> category,
                              n |-> j]]]

InitExtend ==
    /\ Idle
    /\ \E p \in Placements :
           args = [op |-> "extend", a |-> ConfigOf(p, 1), b |-> ConfigOf(p, 2),
                   c |-> ConfigOf(p, 3)]
    /\ ret = [ab |-> None, ab_c |-> None, bc |-> None, a_bc |-> None]

Returns(field, value) ==
    /\ args # None
    /\ args.op = "extend"
    /\ ret[field] = None
    /\ ret' = [ret EXCEPT ![field] = Some(value)]
    /\ UNCHANGED <<writer, encoded, snapshot, written, result, reader, stream,
                   source, materialized, args, damage, earlier, relayer>>

\* a.extend(b)
Extend_a_b == Returns("ab", extend(args.a, args.b))

\* ... and then a.extend(c), a being what a.extend(b) left
Extend_ab_c ==
    /\ ret.ab # None
    /\ Returns("ab_c", extend(ret.ab.value, args.c))

\* b.extend(c)
Extend_b_c == Returns("bc", extend(args.b, args.c))

\* ... and then a.extend(b), b being what b.extend(c) left
Extend_a_bc ==
    /\ ret.bc # None
    /\ Returns("a_bc", extend(args.a, ret.bc.value))

NextExtend ==
    \/ Extend_a_b
    \/ Extend_ab_c
    \/ Extend_b_c
    \/ Extend_a_bc

SpecExtend == InitExtend /\ [][NextExtend]_vars

(***************************************************************************)
(* One StateConfig exported through a writer of each format                *)
(***************************************************************************)
\* The StateConfig values of up to MaxRecords records: p tells the collection
\* of each record, in field order; a record is named by its place in p.
SourceOf(p) ==
    [category \in Category |->
        SelectSeq([i \in 1..Len(p) |-> i],
                  LAMBDA i : CategoryOrder[p[i]] = category)]

Sources ==
    {SourceOf(p) : p \in {q \in SeqUpTo(1..Len(CategoryOrder), MaxRecords) :
                             IsSorted(q)}}

InitInterchange ==
    /\ writer = [d \in Encoding |-> "open"]
    /\ encoded = NoGroups
    /\ written = NoGroups
    /\ snapshot = [d \in Encoding |-> None]
    /\ result = None
    /\ reader = None
    /\ stream = None
    /\ source \in Sources
    /\ materialized = [d \in Encoding |-> None]
    /\ args = None
    /\ ret = None
    /\ damage = NoDamage
    /\ earlier = None
    /\ relayer = None

\* The export writes the five collections in field order, one call each.
Exported(d) == CallsOf(d)

\* StateReader::detect_encoding(path, group_size) and from_reader on a
\* snapshot whose writer has been closed.
Materialize(d, group_size) ==
    /\ writer[d] = "closed"
    /\ LET r == reader_detect_encoding(d, group_size)
           got == IF r.tag = "Err" THEN r ELSE from_reader(r.value)
       IN  /\ materialized' = [materialized EXCEPT ![d] = Some(got)]
           /\ result' = [op |-> "from_reader", dir |-> d, res |-> got]
    /\ UNCHANGED <<writer, encoded, snapshot, written, reader, stream, source,
                   callVars>>

NextInterchange ==
    \/ \E d \in Encoding :
          Exported(d) = 0 /\ write_coins(d, source.coins)
    \/ \E d \in Encoding :
          Exported(d) = 1 /\ write_messages(d, source.messages)
    \/ \E d \in Encoding :
          Exported(d) = 2 /\ write_contracts(d, source.contracts)
    \/ \E d \in Encoding :
          Exported(d) = 3 /\ write_contract_state(d, source.contract_state)
    \/ \E d \in Encoding :
          Exported(d) = 4 /\ write_contract_balance(d, source.contract_balance)
    \/ \E d \in Encoding :
          Exported(d) = Len(CategoryOrder) /\ close(d)
    \/ \E d \in Encoding, g \in GroupSizes : Materialize(d, g)

SpecInterchange == InitInterchange /\ [][NextInterchange]_vars

(***************************************************************************)
(* StateConfig::initial_coin and StateConfig::local_testnet                *)
(***************************************************************************)
TESTNET_INITIAL_BALANCE == 10000000

TESTNET_WALLET_SECRETS ==
    <<"0xde97d8624a438121b86a1956544bd72ed68cd69f2c99555b08b1e8c51ffd511c",
      "0x37fa81c84ccd547c30c176b118d5cb892bdb113e8e80141f266519422ef9eefd",
      "0x862512a2363db2b3a375c0d4bbbd27172180d89f23f2e259bac850ab02619301",
      "0x976e5c3fa620092c718d852ca703b6da9e3075b9f2ecb8ed42d9f746bf26aafb",
      "0x7f8a325504e7315eda997db7861c9447f5c3eff26333b20180475d94443a10c6">>

\* SecretKey::from_str(secret).expect(..): the key the text stands for.
SecretKey_from_str(text) == [tag |-> "SecretKey", of |-> text]

\* Address::from(*secret.public_key().hash())
Address_from(secret) ==
    [tag |-> "Address", of |-> [tag |-> "hash", of |-> [tag |-> "public_key",
                                                        of |-> secret]]]

UtxoId(tx_id, output_index) == [tx_id |-> tx_id, output_index |-> output_index]

\* utxo_id.as_ref().map(|u| *u.tx_id())
map_tx_id(utxo_id) ==
    IF utxo_id = None THEN None ELSE Some(utxo_id.value.tx_id)

\* utxo_id.as_ref().map(|u| u.output_index())
map_output_index(utxo_id) ==
    IF utxo_id = None THEN None ELSE Some(utxo_id.value.output_index)

\* initial_coin that takes the transaction id and leaves the output index.
initial_coin_uncoupled(secret, amount, utxo_id) ==
    [tx_id |-> map_tx_id(utxo_id),
     output_index |-> None,
     tx_pointer_block_height |-> None,
     tx_pointer_tx_idx |-> None,
     maturity |-> None,
     owner |-> Address_from(secret),
     amount |-> amount,
     asset_id |-> "Default"]

\* StateConfig::initial_coin(secret, amount, utxo_id) -> CoinConfig
initial_coin(secret, amount, utxo_id) ==
    [tx_id |-> map_tx_id(utxo_id),
     output_index |-> map_output_index(utxo_id),
     tx_pointer_block_height |-> None,
     tx_pointer_tx_idx |-> None,
     maturity |-> None,
     owner |-> Address_from(secret),
     amount |-> amount,
     asset_id |-> "Default"]

\* StateConfig::local_testnet() -> StateConfig
local_testnet ==
    [StateConfigDefault EXCEPT
       !.coins = [i \in 1..Len(TESTNET_WALLET_SECRETS) |->
                    initial_coin(SecretKey_from_str(TESTNET_WALLET_SECRETS[i]),
                                 TESTNET_INITIAL_BALANCE, None)]]

\* The calls of initial_coin: a preset secret, an amount, a UtxoId or none.
Secrets ==
    {SecretKey_from_str(TESTNET_WALLET_SECRETS[i]) :
        i \in 1..Len(TESTNET_WALLET_SECRETS)}
Amounts == {0, 1, TESTNET_INITIAL_BALANCE}
UtxoIds ==
    {None} \cup {Some(UtxoId(t, o)) : t \in 1..MaxTxId, o \in 0..MaxOutputIndex}

InitCoin ==
    /\ Idle
    /\ \/ \E secret \in Secrets, amount \in Amounts, utxo_id \in UtxoIds :
             args = [op |-> "initial_coin", secret |-> secret,
                     amount |-> amount, utxo_id |-> utxo_id]
       \/ args = [op |-> "local_testnet"]
    /\ ret = None

InitialCoin ==
    /\ args # None
    /\ args.op = "initial_coin"
    /\ ret = None
    /\ ret' = Some(initial_coin(args.secret, args.amount, args.utxo_id))
    /\ UNCHANGED <<writer, encoded, snapshot, written, result, reader, stream,
                   source, materialized, args, damage, earlier, relayer>>

LocalTestnet ==
    /\ args # None
    /\ args.op = "local_testnet"
    /\ ret = None
    /\ ret' = Some(local_testnet)
    /\ UNCHANGED <<writer, encoded, snapshot, written, result, reader, stream,
                   source, materialized, args, damage, earlier, relayer>>

NextCoin ==
    \/ InitialCoin
    \/ LocalTestnet

SpecCoin == InitCoin /\ [][NextCoin]_vars

(***************************************************************************)
(* MaybeRelayerAdapter::await_until_if_in_range                            *)
(***************************************************************************)
\* The future of an async call that is suspended at an .await
Pending == [tag |-> "Pending"]

\* u64::saturating_sub
saturating_sub(a, b) == IF a > b THEN a - b ELSE 0

\* sync.await_at_least_synced(da_height), when polled: ready once the
\* relayer has synced to the height, failed when the relayer is gone,
\* suspended otherwise.
await_at_least_synced(sync, da_height) ==
    IF sync.synced # None /\ sync.synced.value >= da_height THEN Ok(<<>>)
    ELSE IF ~sync.alive THEN Err("relayer stopped")
    ELSE Pending

\* The call without the check of the lag.
await_until_unchecked(adapter, da_height, max_da_lag, current_height) ==
    IF adapter.feature
    THEN IF adapter.relayer_synced = None THEN Ok(<<>>)
         ELSE IF current_height.tag = "Err" THEN current_height
         ELSE await_at_least_synced(adapter.relayer_synced.value, da_height)
    ELSE IF da_height = 0 THEN Ok(<<>>)
         ELSE Err("Cannot have a da height above zero without a relayer")

\* await_until_if_in_range(&self, da_height, max_da_lag), up to its return or
\* to its first suspension; current_height is what get_finalized_da_height()
\* returns.
await_until_if_in_range(adapter, da_height, max_da_lag, current_height) ==
    IF adapter.feature
    THEN IF adapter.relayer_synced = None THEN Ok(<<>>)
         ELSE IF current_height.tag = "Err" THEN current_height
         ELSE IF ~(saturating_sub(da_height, current_height.value) <= max_da_lag)
         THEN Err("Relayer is too far out of sync")
         ELSE await_at_least_synced(adapter.relayer_synced.value, da_height)
    ELSE IF da_height = 0 THEN Ok(<<>>)
         ELSE Err("Cannot have a da height above zero without a relayer")

DaHeights == 0..MaxDaHeight

\* The adapters: built without the relayer feature; with it and no sync
\* handle; with it and the handle of a relayer that has finalized a height
\* and has synced to none or to one.
Adapters ==
    {[feature |-> FALSE, relayer_synced |-> None],
     [feature |-> TRUE, relayer_synced |-> None]}
      \cup {[feature |-> TRUE,
              relayer_synced |-> Some([finalized |-> f, synced |-> s,
                                       alive |-> TRUE])] :
                f \in DaHeights, s \in {None} \cup {Some(h) : h \in DaHeights}}

InitRelayer ==
    /\ writer = [d \in Encoding |-> "none"]
    /\ encoded = NoGroups
    /\ written = NoGroups
    /\ snapshot = [d \in Encoding |-> None]
    /\ result = None
    /\ reader = None
    /\ stream = None
    /\ source = StateConfigDefault
    /\ materialized = [d \in Encoding |-> None]
    /\ damage = NoDamage
    /\ earlier = None
    /\ relayer \in Adapters
    /\ \E da_height \in DaHeights, max_da_lag \in DaHeights :
           args = [op |-> "await_until_if_in_range", da_height |-> da_height,
                   max_da_lag |-> max_da_lag]
    /\ ret = None

\* What get_finalized_da_height() can return: the height, or a storage error.
get_finalized_da_height(adapter) ==
    IF adapter.relayer_synced = None THEN {Ok(0)}
    ELSE {Ok(adapter.relayer_synced.value.finalized), Err("storage")}

\* The first poll of the call.
Poll ==
    /\ ret = None
    /\ \E current_height \in get_finalized_da_height(relayer) :
          LET r == await_until_if_in_range(relayer, args.da_height,
                                           args.max_da_lag, current_height)
          IN  ret' = IF r = Pending THEN Pending ELSE Some(r)
    /\ UNCHANGED <<writer, encoded, snapshot, written, result, reader, stream,
                   source, materialized, args, damage, earlier, relayer>>

\* The suspended call is polled again: await_at_least_synced(..).await?
\* and then Ok(()).
Wake ==
    /\ ret = Pending
    /\ LET r == await_at_least_synced(relayer.relayer_synced.value,
                                      args.da_height)
       IN  /\ r # Pending
           /\ ret' = Some(r)
    /\ UNCHANGED <<writer, encoded, snapshot, written, result, reader, stream,
                   source, materialized, args, damage, earlier, relayer>>

\* The relayer syncs to a higher DA height.
Synced(h) ==
    /\ relayer.relayer_synced # None
    /\ relayer.relayer_synced.value.alive
    /\ IF relayer.relayer_synced.value.synced = None THEN TRUE
       ELSE relayer.relayer_synced.value.synced.value < h
    /\ relayer' = [relayer EXCEPT !.relayer_synced.value.synced = Some(h)]
    /\ UNCHANGED <<writer, encoded, snapshot, written, result, reader, stream,
                   source, materialized, args, ret, damage, earlier>>

\* The relayer finalizes a higher DA height.
Finalized(h) ==
    /\ relayer.relayer_synced # None
    /\ relayer.relayer_synced.value.alive
    /\ relayer.relayer_synced.value.finalized < h
    /\ relayer' = [relayer EXCEPT !.relayer_synced.value.finalized = h]
    /\ UNCHANGED <<writer, encoded, snapshot, written, result, reader, stream,
                   source, materialized, args, ret, damage, earlier>>

\* The relayer stops; its handle stays.
Stopped ==
    /\ relayer.relayer_synced # None
    /\ relayer.relayer_synced.value.alive
    /\ relayer' = [relayer EXCEPT !.relayer_synced.value.alive = FALSE]
    /\ UNCHANGED <<writer, encoded, snapshot, written, result, reader, stream,
                   source, materialized, args, ret, damage, earlier>>

NextRelayer ==
    \/ Poll
    \/ Wake
    \/ \E h \in DaHeights : Synced(h)
    \/ \E h \in DaHeights : Finalized(h)
    \/ Stopped

SpecRelayer == InitRelayer /\ [][NextRelayer]_vars

(***************************************************************************)
(* StateConfig::from_db                                                    *)
(***************************************************************************)
\* try_collect that drains the iterator before it reports the error.
try_collect_draining(items) ==
    LET errs == {i \in 1..Len(items) : items[i].tag = "Err"}
    IN  IF errs = {}
        THEN [res |-> Ok([i \in 1..Len(items) |-> items[i].value]),
              pulled |-> Len(items)]
        ELSE [res |-> items[CHOOSE i \in errs : \A j \in errs : i <= j],
              pulled |-> Len(items)]

RECURSIVE try_collect_from(_, _, _)
\* Iterator::try_collect from item i on, `got` being the records collected:
\* the next item is pulled; an error is returned at once.
try_collect_from(items, i, got) ==
    IF i > Len(items) THEN [res |-> Ok(got), pulled |-> Len(items)]
    ELSE IF items[i].tag = "Err" THEN [res |-> items[i], pulled |-> i]
    ELSE try_collect_from(items, i + 1, Append(got, items[i].value))

\* db.iter_..._configs().try_collect(): the records of the iterator, or its
\* first error; with the number of items pulled from it.
try_collect(items) == try_collect_from(items, 1, <<>>)

RECURSIVE from_db_upto(_, _)
\* The first n statements of from_db, in the order of the code: what has
\* been collected or the error returned by `?`, the iterators made and the
\* number of items pulled from each.
from_db_upto(db, n) ==
    IF n = 0
    THEN [res |-> Ok(StateConfigDefault), started |-> <<>>,
          pulled |-> [c \in Category |-> 0]]
    ELSE LET before == from_db_upto(db, n - 1)
             category == CategoryOrder[n]
             got == try_collect(db[category])
         IN  IF before.res.tag = "Err" THEN before
             ELSE [res |-> IF got.res.tag = "Err" THEN got.res
                           ELSE Ok([before.res.value EXCEPT
                                      ![category] = got.res.value]),
                   started |-> Append(before.started, category),
                   pulled |-> [before.pulled EXCEPT ![category] = got.pulled]]

\* StateConfig::from_db(db) -> Result<StateConfig>
from_db(db) == from_db_upto(db, Len(CategoryOrder))

\* The items of the iterators of a ChainStateDb: p tells, item by item, the
\* iterator it belongs to (in field order) and whether it is a record or an
\* error; an item is named by its iterator and its place in p.
DbItem == (1..Len(CategoryOrder)) \X {"Ok", "Err"}
DbOf(p) ==
    [category \in Category |->
        LET mine == SelectSeq([i \in 1..Len(p) |-> i],
                              LAMBDA i : CategoryOrder[p[i][1]] = category)
        IN  [j \in 1..Len(mine) |->
                IF p[mine[j]][2] = "Ok" THEN Ok(<<category, mine[j]>>)
                ELSE Err(<<"DatabaseError", category, mine[j]>>)]]
Dbs ==
    {DbOf(p) : p \in {q \in SeqUpTo(DbItem, MaxDbItems) :
                         \A i \in 1..(Len(q) - 1) : q[i][1] <= q[i + 1][1]}}

InitFromDb ==
    /\ Idle
    /\ \E db \in Dbs : args = [op |-> "from_db", db |-> db]
    /\ ret = None

FromDb ==
    /\ args # None
    /\ args.op = "from_db"
    /\ ret = None
    /\ ret' = Some(from_db(args.db))
    /\ UNCHANGED <<writer, encoded, snapshot, written, result, reader, stream,
                   source, materialized, args, damage, earlier, relayer>>

NextFromDb == FromDb

SpecFromDb == InitFromDb /\ [][NextFromDb]_vars

(***************************************************************************)
(* A finalized snapshot whose stored data is damaged before it is read     *)
(***************************************************************************)
\* The categories of d whose resource is damaged or gone.
Damaged(d) == {c \in Category : damage[d][c] # None}

\* The stored data of a category becomes unreadable from the unit numbered
\* `at` on (corrupt there, or truncated before it), between close() and the
\* first read of the snapshot.
Damage(d, category, at) ==
    /\ snapshot[d] # None
    /\ result.op = "close"
    /\ damage[d][category] = None
    /\ Cardinality(Damaged(d)) < MaxDamaged
    /\ at \in 0..Len(snapshot[d][category])
    /\ damage' = [damage EXCEPT ![d][category] = Some(at)]
    /\ UNCHANGED <<writer, encoded, snapshot, written, result, reader, stream,
                   source, materialized, args, ret, earlier, relayer>>

\* The resource of a category is removed from the snapshot directory.
Remove(d, category) ==
    /\ snapshot[d] # None
    /\ result.op = "close"
    /\ damage[d][category] = None
    /\ Cardinality(Damaged(d)) < MaxDamaged
    /\ damage' = [damage EXCEPT ![d][category] = Missing]
    /\ UNCHANGED <<writer, encoded, snapshot, written, result, reader, stream,
                   source, materialized, args, ret, earlier, relayer>>

NextDecode ==
    \/ \E d \in Encoding : InBudget(d) /\ \E n \in BatchLens(d) :
          writer[d] = "open" /\ write_coins(d, fresh(d, "coins", n))
    \/ \E d \in Encoding : InBudget(d) /\ \E n \in BatchLens(d) :
          writer[d] = "open" /\ write_messages(d, fresh(d, "messages", n))
    \/ \E d \in Encoding : close(d)
    \/ \E d \in Encoding, c \in Category, at \in 0..MaxWrites : Damage(d, c, at)
    \/ \E d \in Encoding, g \in GroupSizes : StateReader_detect_encoding(d, g)
    \/ coins
    \/ messages
    \/ contracts
    \/ contract_state
    \/ contract_balance
    \/ IntoIter_next

SpecDecode == Init /\ [][NextDecode]_vars

\* ... and materialized.
NextAssemble ==
    \/ \E d \in Encoding : InBudget(d) /\ \E n \in BatchLens(d) :
          writer[d] = "open" /\ write_coins(d, fresh(d, "coins", n))
    \/ \E d \in Encoding : InBudget(d) /\ \E n \in BatchLens(d) :
          writer[d] = "open" /\ write_messages(d, fresh(d, "messages", n))
    \/ \E d \in Encoding : close(d)
    \/ \E d \in Encoding, c \in Category, at \in 0..MaxWrites : Damage(d, c, at)
    \/ \E d \in Encoding, c \in Category : Remove(d, c)
    \/ \E d \in Encoding, g \in GroupSizes : StateReader_detect_encoding(d, g)
    \/ FromReader

SpecAssemble == Init /\ [][NextAssemble]_vars

(***************************************************************************)
(* A writer given full groups as well as flat batches                      *)
(***************************************************************************)
\* A write of a full group that, when the back-end refuses the group, drops
\* what the other categories hold.
write_group_spilling(d, category, group) ==
    /\ writer[d] # "none"
    /\ args' = [op |-> "write_group", category |-> category, group |-> group]
    /\ LET r == IF writer[d] = "closed" THEN Err("WriterClosed")
                ELSE encode(encoded[d][category], group)
       IN  /\ result' = [op |-> "write_group", dir |-> d,
                         res |-> IF r.tag = "Err" THEN r ELSE Ok(<<>>)]
           /\ encoded' = [encoded EXCEPT ![d] =
                             [c \in Category |->
                                IF r.tag = "Err"
                                THEN (IF c = category THEN @[c] ELSE <<>>)
                                ELSE (IF c = category THEN r.value ELSE @[c])]]
           /\ written' = IF r.tag = "Err" THEN written
                         ELSE [written EXCEPT
                                 ![d][category] = Append(@, group.data)]
    /\ UNCHANGED <<writer, snapshot, reader, stream, source, materialized, ret,
                   damage, earlier, relayer>>

\* write_coins / write_messages / ... given a full group: the group goes to
\* the back-end's encode as it is. The call is kept in args.
write_group(d, category, group) ==
    /\ writer[d] # "none"
    /\ args' = [op |-> "write_group", category |-> category, group |-> group]
    /\ IF writer[d] = "closed"
       THEN /\ result' = [op |-> "write_group", dir |-> d,
                          res |-> Err("WriterClosed")]
            /\ UNCHANGED <<encoded, written>>
       ELSE LET r == encode(encoded[d][category], group)
            IN  IF r.tag = "Err"
                THEN /\ result' = [op |-> "write_group", dir |-> d, res |-> r]
                     /\ UNCHANGED <<encoded, written>>
                ELSE /\ encoded' = [encoded EXCEPT ![d][category] = r.value]
                     /\ written' = [written EXCEPT
                                      ![d][category] = Append(@, group.data)]
                     /\ result' = [op |-> "write_group", dir |-> d,
                                   res |-> Ok(<<>>)]
    /\ UNCHANGED <<writer, snapshot, reader, stream, source, materialized, ret,
                   damage, earlier, relayer>>

\* The indices a caller gives a full group: that of a group the category
\* already holds, or the next one.
IndicesOf(d, category) == 0..Len(encoded[d][category])

NextEncode ==
    \/ \E d \in Encoding : InBudget(d) /\ \E n \in BatchLens(d) :
          write_coins(d, fresh(d, "coins", n))
    \/ \E d \in Encoding : InBudget(d) /\ \E n \in BatchLens(d) :
          write_messages(d, fresh(d, "messages", n))
    \/ \E d \in Encoding, c \in Category :
          \E n \in BatchLens(d) \ {0}, i \in IndicesOf(d, c) :
             /\ InBudget(d) \/ i < Len(encoded[d][c])
             /\ write_group(d, c, Group(i, fresh(d, c, n)))
    \/ \E d \in Encoding : close(d)
    \/ \E d \in Encoding, g \in GroupSizes : StateReader_detect_encoding(d, g)
    \/ \E d \in Encoding : LoadFromSnapshot(d)

SpecEncode == Init /\ [][NextEncode]_vars

(***************************************************************************)
(* Two group sequences of one snapshot held at a time                      *)
(***************************************************************************)
\* reader.coins() etc., the caller keeping the sequence it took before,
\* with the reader that was taken from.
Accessor_keeping(category) ==
    /\ open(category)
    /\ earlier' = IF stream = None \/ accessor(reader, category).tag = "Err"
                  THEN earlier
                  ELSE [tag |-> "IntoIter", category |-> stream.category,
                        items |-> stream.items, pos |-> stream.pos,
                        ended |-> stream.ended, of |-> reader]

\* Iterator::next on the sequence kept.
IntoIter_next_earlier ==
    /\ earlier # None
    /\ ~earlier.ended
    /\ IF earlier.pos < Len(earlier.items)
       THEN /\ earlier' = [earlier EXCEPT !.pos = @ + 1]
            /\ result' = [op |-> "next", dir |-> earlier.of.dir,
                          res |-> earlier.items[earlier.pos + 1]]
       ELSE /\ earlier' = [earlier EXCEPT !.ended = TRUE]
            /\ result' = [op |-> "next", dir |-> earlier.of.dir, res |-> None]
    /\ UNCHANGED <<writer, encoded, snapshot, written, reader, stream, source,
                   materialized, args, ret, damage, relayer>>

NextReinvoke ==
    \/ \E d \in Encoding : InBudget(d) /\ \E n \in BatchLens(d) :
          writer[d] = "open" /\ write_coins(d, fresh(d, "coins", n))
    \/ \E d \in Encoding : InBudget(d) /\ \E n \in BatchLens(d) :
          writer[d] = "open" /\ write_messages(d, fresh(d, "messages", n))
    \/ \E d \in Encoding : close(d)
    \/ \E d \in Encoding, g \in GroupSizes : StateReader_detect_encoding(d, g)
    \/ \E c \in Category : Accessor_keeping(c)
    \/ IntoIter_next
    \/ IntoIter_next_earlier

SpecReinvoke == Init /\ [][NextReinvoke]_vars

(***************************************************************************)
(* Properties                                                              *)
(***************************************************************************)
\* The records of a sequence of Ok(group) items, in order.
DataOf(items) == Flatten([i \in 1..Len(items) |-> items[i].value.data])
AllOk(items) == \A i \in 1..Len(items) : items[i].tag = "Ok"

\* The records a writer was given for a category, in order.
Given(d, category) == Flatten(written[d][category])

\* The reader held is of the format of a finalized snapshot.
Matching == reader # None /\ layout(reader.dir) = reader.encoding

\* C1 (round-trip identity): once a writer has been closed, a reader of the
\* snapshot's format is constructed without error at any group size, and
\* every category opened through such a reader yields groups without an
\* error item whose data, concatenated in index order, is the sequence of
\* records given to the writer for that category, in the order given; so is
\* the data of a group sequence that has been pulled to its end.
C1_RoundTrip ==
    /\ (result # None /\ result.op = "detect_encoding"
            /\ snapshot[result.dir] # None) =>
          result.res.tag = "Ok"
    /\ Matching =>
          \A c \in Category :
             LET opened == accessor(reader, c)
             IN  /\ opened.tag = "Ok"
                 /\ AllOk(opened.value)
                 /\ DataOf(opened.value) = Given(reader.dir, c)
    /\ (stream # None /\ stream.ended) =>
          /\ AllOk(stream.items)
          /\ DataOf(stream.items) = Given(reader.dir, stream.category)

\* C1 witness: three records given in two batches have been read back to the
\* end of the sequence, as more than one group.
C1_Witness ==
    /\ stream # None
    /\ stream.ended
    /\ Len(stream.items) >= 2
    /\ Len(written[reader.dir][stream.category]) = 2
    /\ Len(Given(reader.dir, stream.category)) = 3

\* The sizes of the groups, in order.
SizesOf(groups) == [i \in 1..Len(groups) |-> Len(groups[i].data)]

\* Groups numbered 0, 1, 2, ... in order, all full but the last, which holds
\* the remainder and is not empty; none for an empty input; the records in
\* their order.
ChunkShape(records, max_size, groups) ==
    /\ \A i \in 1..Len(groups) : groups[i].index = i - 1
    /\ \A i \in 1..(Len(groups) - 1) : Len(groups[i].data) = max_size
    /\ groups # <<>> =>
          /\ Len(groups[Len(groups)].data) \in 1..max_size
          /\ Len(groups[Len(groups)].data)
                = Len(records) - (Len(groups) - 1) * max_size
    /\ (records = <<>>) <=> (groups = <<>>)
    /\ Flatten([i \in 1..Len(groups) |-> groups[i].data]) = records

\* 2*G+3 records at group size G: 3 groups of sizes G, G, 3.
ChunkBoundary(records, max_size, groups) ==
    (max_size < Len(records) /\ Len(records) = 2 * max_size + 3) =>
        SizesOf(groups) = <<max_size, max_size, 3>>

\* 250 records at size 100: sizes 100, 100, 50 at indices 0, 1, 2.
ChunkScenario(records, max_size, groups) ==
    (Len(records) = Scenario.records /\ max_size = Scenario.max_size) =>
        /\ SizesOf(groups) = <<100, 100, 50>>
        /\ [i \in 1..Len(groups) |-> groups[i].index] = <<0, 1, 2>>

\* C2 as stated (chunking, with the boundary case for every group size
\* G >= 1): refuted by G = 1, where 5 records make 5 groups, and by G = 2,
\* where 7 records make 4 groups.
C2_AsStated ==
    ret # None =>
        /\ ChunkShape(args.records, args.max_size, ret.value)
        /\ ChunkBoundary(args.records, args.max_size, ret.value)
        /\ ChunkScenario(args.records, args.max_size, ret.value)

\* C2 (chunking, amended): chunk(records, max_size) for max_size >= 1 makes
\* groups numbered 0, 1, 2, ... in production order, every group but the
\* last holding exactly max_size records, the last holding the remainder and
\* never empty, an empty input making no group; for G >= 3, 2*G+3 records at
\* group size G make exactly 3 groups of sizes G, G, 3; 250 records at size
\* 100 make groups of sizes 100, 100, 50 with indices 0, 1, 2.
C2_Chunking ==
    ret # None =>
        /\ ChunkShape(args.records, args.max_size, ret.value)
        /\ args.max_size >= 3 =>
              ChunkBoundary(args.records, args.max_size, ret.value)
        /\ ChunkScenario(args.records, args.max_size, ret.value)

\* C2 witness: 2*G+3 = 11 records have been chunked at G = 4.
C2_Witness ==
    /\ ret # None
    /\ args.max_size = 4
    /\ Len(args.records) = 11
    /\ SizesOf(ret.value) = <<4, 4, 3>>

\* C3 (group index monotonicity): the groups pulled from a group sequence
\* are Ok items with indices 0, 1, 2, ... in that order; the sequence ends
\* only after its last group, having yielded no error item and all the
\* records the snapshot stores for the category; and every category of a
\* finalized snapshot decodes, for the reader held, to groups numbered so.
C3_IndexMonotonic ==
    /\ stream # None =>
          /\ \A i \in 1..stream.pos :
                /\ stream.items[i].tag = "Ok"
                /\ stream.items[i].value.index = i - 1
          /\ stream.ended =>
                /\ stream.pos = Len(stream.items)
                /\ Len(DataOf(stream.items))
                      = Len(Flatten(snapshot[reader.dir][stream.category]))
    /\ (result # None /\ result.op = "next" /\ result.res # None) =>
          /\ result.res.tag = "Ok"
          /\ result.res.value.index = stream.pos - 1
    /\ Matching =>
          \A c \in Category :
             LET items == accessor(reader, c).value
             IN  \A i \in 1..Len(items) :
                    items[i].tag = "Ok" /\ items[i].value.index = i - 1

\* C3 witness: a sequence of more than one group has been pulled to its end.
C3_Witness ==
    /\ stream # None
    /\ stream.ended
    /\ stream.pos >= 2
    /\ result.op = "next"
    /\ result.res = None

\* C4 (empty category): when no record was written for a category and the
\* writer has been closed, opening the category through a reader of the
\* snapshot succeeds and gives no item at all, whatever the other
\* categories hold; a group sequence taken for such a category is empty.
C4_EmptyCategory ==
    /\ Matching =>
          \A c \in Category : Given(reader.dir, c) = <<>> =>
             accessor(reader, c) = Ok(<<>>)
    /\ (stream # None /\ Given(reader.dir, stream.category) = <<>>) =>
          stream.items = <<>>

\* C4 witness: a category that was given one empty batch, beside three
\* records in another category, has been opened and read to its end.
C4_Witness ==
    /\ stream # None
    /\ stream.ended
    /\ written[reader.dir][stream.category] = << <<>> >>
    /\ RecordsOf(reader.dir) = 3

\* C5 (write after close): once a writer is closed it stays closed, no step
\* changes what it has encoded, its snapshot or the batches it accepted,
\* and a write_* call on it returns Error::WriterClosed; close() does not
\* return a second time.
C5_WriteAfterClose ==
    [][\A d \in Encoding : writer[d] = "closed" =>
          /\ writer'[d] = "closed"
          /\ encoded'[d] = encoded[d]
          /\ snapshot'[d] = snapshot[d]
          /\ written'[d] = written[d]
          /\ (result' # result /\ result'.dir = d) =>
                /\ result'.op # "close"
                /\ result'.op = "write" => result'.res = Err("WriterClosed")]_vars

\* C5 witness: a write_* call on a closed writer that had accepted records
\* has returned WriterClosed.
C5_Witness ==
    /\ result # None
    /\ result.op = "write"
    /\ result.res = Err("WriterClosed")
    /\ writer[result.dir] = "closed"
    /\ RecordsOf(result.dir) > 0

\* z is x followed by y, collection by collection, and holds in a collection
\* only records made for that collection.
IsConcat(x, y, z) ==
    \A category \in Category :
       /\ Len(z[category]) = Len(x[category]) + Len(y[category])
       /\ \A i \in 1..Len(x[category]) : z[category][i] = x[category][i]
       /\ \A j \in 1..Len(y[category]) :
             z[category][Len(x[category]) + j] = y[category][j]
       /\ \A i \in 1..Len(z[category]) : z[category][i].category = category

\* C6 (extend is category-wise concatenation): after self.extend(other),
\* each of the five collections of self is its previous content followed by
\* the same collection of other, and holds no record of another category.
C6_ExtendConcat ==
    (args # None /\ args.op = "extend") =>
        /\ ret.ab # None => IsConcat(args.a, args.b, ret.ab.value)
        /\ ret.bc # None => IsConcat(args.b, args.c, ret.bc.value)
        /\ ret.ab_c # None => IsConcat(ret.ab.value, args.c, ret.ab_c.value)
        /\ ret.a_bc # None => IsConcat(args.a, ret.bc.value, ret.a_bc.value)

\* C6 witness: a.extend(b) has returned where a and b both hold a record in
\* one category and b holds one in another.
C6_Witness ==
    /\ args # None
    /\ args.op = "extend"
    /\ ret.ab # None
    /\ \E c1, c2 \in Category :
          /\ c1 # c2
          /\ args.a[c1] # <<>>
          /\ args.b[c1] # <<>>
          /\ args.b[c2] # <<>>

\* C7 (extend is associative): a extended with b and then with c equals, in
\* every category, a extended with (b extended with c).
C7_ExtendAssociative ==
    (args # None /\ args.op = "extend" /\ ret.ab_c # None /\ ret.a_bc # None) =>
        \A category \in Category :
           ret.ab_c.value[category] = ret.a_bc.value[category]

\* C7 witness: both ways of extending have returned for three values that
\* each hold a record in the same category.
C7_Witness ==
    /\ args # None
    /\ args.op = "extend"
    /\ ret.ab_c # None
    /\ ret.a_bc # None
    /\ \E category \in Category :
          /\ args.a[category] # <<>>
          /\ args.b[category] # <<>>
          /\ args.c[category] # <<>>

\* C8 (format interchangeability): when the same StateConfig has been
\* written through a text writer and through a columnar writer, both have
\* been closed and both snapshots have been materialized with from_reader,
\* the two calls returned Ok with StateConfig values equal in every category.
C8_Interchangeable ==
    (materialized["json"] # None /\ materialized["parquet"] # None) =>
        /\ materialized["json"].value.tag = "Ok"
        /\ materialized["parquet"].value.tag = "Ok"
        /\ \A category \in Category :
              materialized["json"].value.value[category]
                = materialized["parquet"].value.value[category]

\* C8 witness: a StateConfig of three records in two categories has been
\* written in both formats and read back from both.
C8_Witness ==
    /\ materialized["json"] # None
    /\ materialized["parquet"] # None
    /\ Len(source.coins) = 2
    /\ Len(source.contract_state) = 1
    /\ materialized["json"].value = Ok(source)

\* The groups made of a sequence of batches, one each, numbered in order.
GroupsOf(batches) == [i \in 1..Len(batches) |-> Ok(Group(i - 1, batches[i]))]

NonEmpty(batches) == SelectSeq(batches, LAMBDA b : b # <<>>)

\* The sizes of the batches, in order.
LensOf(batches) == [i \in 1..Len(batches) |-> Len(batches[i])]

Unwrapped(items) == [i \in 1..Len(items) |-> items[i].value]

\* The batches are the chunking of their records at size g: every batch but
\* the last holds g records, the last between 1 and g.
ChunkedAt(batches, g) ==
    \A i \in 1..Len(batches) :
       /\ Len(batches[i]) \in 1..g
       /\ i < Len(batches) => Len(batches[i]) = g

\* C10 (the text back-end chunks again on read): the groups a text reader
\* yields for a category are the chunking, at the reader's group size, of
\* the records written for it in order, however they were batched; when the
\* batches written were themselves the chunking at that size, the groups are
\* those batches; and load_from_snapshot returns what from_reader returns
\* for a reader of the snapshot at any group size.
C10_TextRechunks ==
    /\ (Matching /\ reader.encoding = "json") =>
          \A c \in Category :
             LET items == accessor(reader, c).value
             IN  /\ AllOk(items)
                 /\ ChunkShape(Given("json", c), reader.group_size,
                               Unwrapped(items))
                 /\ ChunkedAt(written["json"][c], reader.group_size)
                       => items = GroupsOf(written["json"][c])
    /\ (result # None /\ result.op = "load_from_snapshot" /\ Matching
            /\ reader.dir = result.dir) =>
          result.res = from_reader(reader)

\* C10 witness: load_from_snapshot has returned the three records written to
\* a text snapshot as batches of two and one.
C10_Witness ==
    /\ result # None
    /\ result.op = "load_from_snapshot"
    /\ result.dir = "json"
    /\ result.res.tag = "Ok"
    /\ Matching
    /\ reader.group_size = MAX_GROUP_SIZE
    /\ \E c \in Category :
          /\ LensOf(written["json"][c]) = <<2, 1>>
          /\ result.res.value[c] = <<<<c, 1>>, <<c, 2>>, <<c, 3>>>>

\* What a reader yields for a category when nothing of it is damaged.
clean(r, category) ==
    IF r.encoding = "parquet" THEN decode_parquet(snapshot[r.dir][category])
    ELSE decode_json(snapshot[r.dir][category], r.group_size)

\* The group sequence open was taken from data that is damaged.
OnDamaged ==
    /\ stream # None
    /\ damage[reader.dir][stream.category] # None

\* C11 (decode failure is surfaced once and ends the stream): when the
\* stored data of a category is corrupt or truncated at group k, the group
\* sequence of the category holds the groups 0..k-1 as an undamaged reader
\* yields them, then one DecodeError::Malformed item and nothing after it
\* (for the columnar format k is the damaged row group); the item pulled
\* after the error is the end of the sequence, and an error item is pulled
\* only as the last item.
C11_DecodeFailure ==
    /\ OnDamaged =>
          LET items == stream.items
              k == Len(items) - 1
              good == clean(reader, stream.category)
          IN  /\ k >= 0
              /\ k <= Len(good)
              /\ \A i \in 1..k : items[i] = good[i] /\ items[i].tag = "Ok"
              /\ items[k + 1] = Err("Malformed")
              /\ reader.encoding = "parquet" =>
                    k = damage[reader.dir][stream.category].value
              /\ stream.ended => stream.pos = k + 1
    /\ stream # None =>
          \A i \in 1..stream.pos :
             stream.items[i].tag = "Err" => i = Len(stream.items)
    /\ (result # None /\ result.op = "next" /\ result.res # None
            /\ result.res.tag = "Err") =>
          /\ result.res = Err("Malformed")
          /\ stream.pos = Len(stream.items)

\* C11 witness: a sequence over damaged data has been pulled to its end:
\* two groups, then the error, then the end.
C11_Witness ==
    /\ OnDamaged
    /\ stream.ended
    /\ stream.pos = 3
    /\ stream.items[3] = Err("Malformed")
    /\ result.op = "next"
    /\ result.res = None

\* A sequence as a step leaves it is the sequence before, not moved back.
NotRewound(before, after) ==
    /\ after.category = before.category
    /\ after.items = before.items
    /\ after.pos >= before.pos
    /\ before.ended => after.ended

\* C12 (reader accessors are re-invocable but not restartable): every call
\* of a category accessor on a reader of a finalized snapshot leaves a new
\* sequence with nothing pulled from it, whose groups are those of any
\* earlier call for the category on that reader and start at index 0,
\* however far the sequence taken before, for that or another category, was
\* consumed; the sequence taken before stays where it was, and no step
\* moves a sequence back.
C12_Reinvocable ==
    [][/\ (result' # None /\ result'.op = "accessor"
              /\ result'.res.tag = "Ok") =>
             /\ stream'.pos = 0
             /\ ~stream'.ended
             /\ stream'.items = accessor(reader, stream'.category).value
             /\ stream'.items # <<>> =>
                   /\ stream'.items[1].tag = "Ok"
                   /\ stream'.items[1].value.index = 0
             /\ stream # None =>
                   /\ earlier' # None
                   /\ earlier'.of = reader
                   /\ NotRewound(stream, earlier')
                   /\ earlier'.pos = stream.pos
                   /\ stream'.category = stream.category =>
                         stream'.items = stream.items
             /\ (earlier # None /\ earlier.of = reader
                    /\ earlier.category = stream'.category) =>
                   stream'.items = earlier.items
       /\ (result' # None /\ result'.op # "accessor") =>
             /\ (stream # None /\ stream' # None) => NotRewound(stream, stream')
             /\ (earlier # None /\ earlier' # None) =>
                   NotRewound(earlier, earlier')]_vars

\* C12 witness: a category has been opened again on the same reader while
\* the sequence taken before had two groups pulled from it, and a group
\* has been pulled from the new one.
C12_Witness ==
    /\ stream # None
    /\ earlier # None
    /\ earlier.of = reader
    /\ earlier.category = stream.category
    /\ earlier.pos = 2
    /\ stream.pos = 1
    /\ result.op = "next"
    /\ result.res = stream.items[1]

\* What the last write_group call did with the index it carried: refused
\* with OutOfOrderGroup an index the category already held, stored the
\* group at the position of its index otherwise.
GroupCallChecked ==
    (result # None /\ result.op = "write_group"
        /\ writer[result.dir] = "open") =>
       LET output == encoded[result.dir][args.category]
       IN  IF result.res.tag = "Err"
           THEN /\ result.res = Err("OutOfOrderGroup")
                /\ args.group.index < Len(output)
           ELSE /\ args.group.index = Len(output) - 1
                /\ output[Len(output)] = args.group.data

\* The next flat batch of n records goes to the back-end as one group,
\* numbered by the groups the category holds, and is accepted.
NextBatchNumbered(d, category) ==
    \A n \in BatchLens(d) \ {0} :
       LET gs == batch_groups(encoded[d][category], fresh(d, category, n))
       IN  /\ gs = <<Group(Len(encoded[d][category]), fresh(d, category, n))>>
           /\ encode_all(encoded[d][category], gs).tag = "Ok"

WriteFailed(res) ==
    /\ res # None
    /\ res.op \in {"write", "write_group"}
    /\ res.res.tag = "Err"

\* The last write_group call was refused: its records are not stored.
GroupRefused ==
    /\ args # None
    /\ args.op = "write_group"
    /\ \A d \in Encoding :
          \A i \in 1..Len(encoded[d][args.category]) :
             encoded[d][args.category][i] # args.group.data

ErrorsIn(items) == {i \in 1..Len(items) : items[i].tag = "Err"}
Least(S) == CHOOSE i \in S : \A j \in S : i <= j
Failing(db) ==
    {n \in 1..Len(CategoryOrder) : ErrorsIn(db[CategoryOrder[n]]) # {}}

\* C14 (from_db): from_db returns Ok exactly when no iterator yields an
\* error, and then each category is the complete item sequence of its
\* iterator, in iteration order; otherwise it returns the first error of
\* the first category, in the order coins, messages, contracts,
\* contract_state, contract_balance, that holds one, and no StateConfig:
\* the iterators before it were drained, the failing one was pulled up to
\* its first error and not further, and the later ones were never made.
C14_FromDb ==
    (args # None /\ args.op = "from_db" /\ ret # None) =>
       LET db == args.db
           out == ret.value
       IN  IF Failing(db) = {}
           THEN /\ out.res.tag = "Ok"
                /\ \A c \in Category :
                      /\ Len(out.res.value[c]) = Len(db[c])
                      /\ \A i \in 1..Len(db[c]) :
                            out.res.value[c][i] = db[c][i].value
                      /\ out.pulled[c] = Len(db[c])
                /\ out.started = CategoryOrder
           ELSE LET n == Least(Failing(db))
                    at == Least(ErrorsIn(db[CategoryOrder[n]]))
                IN  /\ out.res = db[CategoryOrder[n]][at]
                    /\ out.res.tag = "Err"
                    /\ out.started = SubSeq(CategoryOrder, 1, n)
                    /\ out.pulled[CategoryOrder[n]] = at
                    /\ \A m \in 1..Len(CategoryOrder) :
                          /\ m < n => out.pulled[CategoryOrder[m]]
                                         = Len(db[CategoryOrder[m]])
                          /\ m > n => out.pulled[CategoryOrder[m]] = 0

\* C14 witness: from_db has returned the error that the messages iterator
\* yields as its second item, having left the item behind it and the item
\* of a later iterator unpulled.
C14_Witness ==
    /\ args # None
    /\ args.op = "from_db"
    /\ ret # None
    /\ ret.value.res.tag = "Err"
    /\ ret.value.started = <<"coins", "messages">>
    /\ ret.value.pulled["messages"] = 2
    /\ Len(args.db["messages"]) = 3
    /\ Len(args.db["contract_balance"]) = 1

\* The first error a category gives a reader: that of opening it, or the
\* first error item of its sequence; None when it has none.
FirstError(r, category) ==
    LET opened == accessor(r, category)
    IN  IF opened.tag = "Err" THEN opened
        ELSE IF ErrorsIn(opened.value) = {} THEN None
        ELSE opened.value[Least(ErrorsIn(opened.value))]

\* The groups a category yields before anything fails.
Yielded(r, category) ==
    LET items == accessor(r, category).value
    IN  SelectSeq(items, LAMBDA item : item.tag = "Ok")

\* What C15 says from_reader returns for a reader.
Materialized(r) ==
    LET failing == {n \in 1..Len(CategoryOrder) :
                       FirstError(r, CategoryOrder[n]) # None}
    IN  IF failing = {}
        THEN Ok([c \in Category |-> DataOf(Yielded(r, c))])
        ELSE FirstError(r, CategoryOrder[Least(failing)])

\* C15 (from_reader): a call of from_reader on a reader returns, when every
\* category opens and yields no error item, the StateConfig whose
\* collections are the concatenation of the data of the groups of each
\* category in yield order; otherwise it returns the error of the first
\* category, in the order coins, messages, contracts, contract_state,
\* contract_balance, that fails to open or yields an error item, and no
\* StateConfig; the categories it opens are those up to the failing one.
C15_FromReader ==
    [][(reader # None /\ reader' = None) =>
          /\ result'.op = "from_reader"
          /\ result'.res = Materialized(reader)
          /\ result'.res.tag = "Ok" =>
                /\ opened_upto(reader, Len(CategoryOrder)) = CategoryOrder
                /\ \A c \in Category :
                      result'.res.value[c] = Flatten(snapshot[reader.dir][c])
          /\ result'.res.tag = "Err" =>
                LET opened == opened_upto(reader, Len(CategoryOrder))
                    last == opened[Len(opened)]
                IN  /\ opened = SubSeq(CategoryOrder, 1, Len(opened))
                    /\ FirstError(reader, last) = result'.res
                    /\ \A i \in 1..(Len(opened) - 1) :
                          FirstError(reader, opened[i]) = None]_vars

\* C15 witness: from_reader has returned ResourceNotFound for messages,
\* the coins before it readable in two groups and the contracts behind it
\* damaged.
C15_Witness ==
    /\ result # None
    /\ result.op = "from_reader"
    /\ result.res = Err("ResourceNotFound")
    /\ damage[result.dir]["coins"] = None
    /\ Len(snapshot[result.dir]["coins"]) = 2
    /\ damage[result.dir]["messages"] = Missing
    /\ damage[result.dir]["contracts"] = Some(0)

\* A coin with no originating transaction reference and no tx pointer or
\* maturity.
Unreferenced(coin) ==
    /\ coin.tx_id = None
    /\ coin.output_index = None

NoPointer(coin) ==
    /\ coin.tx_pointer_block_height = None
    /\ coin.tx_pointer_tx_idx = None
    /\ coin.maturity = None

\* C17 (coupled transaction reference): a coin built by initial_coin has
\* tx_id present exactly when output_index is present: both, taken from
\* the utxo_id, when one is given, neither when it is None; it has no tx
\* pointer height, tx pointer index or maturity, the amount given and the
\* address of the secret as owner. local_testnet returns 5 coins, the i-th
\* owned by the address of the i-th preset secret, each with amount
\* TESTNET_INITIAL_BALANCE and no transaction reference, and leaves
\* messages, contracts, contract_state and contract_balance empty.
C17_CoupledReference ==
    /\ (args # None /\ args.op = "initial_coin" /\ ret # None) =>
          LET coin == ret.value
          IN  /\ (coin.tx_id # None) <=> (coin.output_index # None)
              /\ (coin.tx_id # None) <=> (args.utxo_id # None)
              /\ args.utxo_id # None =>
                    /\ coin.tx_id = Some(args.utxo_id.value.tx_id)
                    /\ coin.output_index = Some(args.utxo_id.value.output_index)
              /\ NoPointer(coin)
              /\ coin.amount = args.amount
              /\ coin.owner = Address_from(args.secret)
    /\ (args # None /\ args.op = "local_testnet" /\ ret # None) =>
          LET config == ret.value
          IN  /\ Len(config.coins) = 5
              /\ \A i \in 1..5 :
                    /\ config.coins[i].owner
                          = Address_from(
                              SecretKey_from_str(TESTNET_WALLET_SECRETS[i]))
                    /\ config.coins[i].amount = TESTNET_INITIAL_BALANCE
                    /\ Unreferenced(config.coins[i])
                    /\ NoPointer(config.coins[i])
              /\ \A c \in Category \ {"coins"} : config[c] = <<>>

\* C17 witness: initial_coin has returned a coin for a utxo_id, carrying its
\* transaction id and its output index.
C17_Witness ==
    /\ args # None
    /\ args.op = "initial_coin"
    /\ ret # None
    /\ args.utxo_id = Some(UtxoId(2, 1))
    /\ ret.value.tx_id = Some(2)
    /\ ret.value.output_index = Some(1)

(***************************************************************************)
(* C18                                                                     *)
(***************************************************************************)
\* The adapter is built with the relayer feature and holds a sync handle.
WithHandle == relayer.feature /\ relayer.relayer_synced # None

\* The relayer has synced to at least the height of the call.
SyncedToHeight ==
    /\ relayer.relayer_synced.value.synced # None
    /\ relayer.relayer_synced.value.synced.value >= args.da_height

\* da_height minus the finalized DA height, saturating at 0, exceeds
\* max_da_lag.
TooFarBehind ==
    saturating_sub(args.da_height, relayer.relayer_synced.value.finalized)
        > args.max_da_lag

\* The step in which the call is polled first.
Polled == ret = None /\ ret' # None

\* What C18 says of every path but the one of a relayer too far behind: Ok
\* only after the relayer has synced to the height; Ok at once with no sync
\* handle; without the feature, Ok exactly when da_height is 0 and an error
\* above 0.
OtherPaths ==
    /\ ret' = Some(Ok(<<>>)) /\ WithHandle => SyncedToHeight'
    /\ Polled /\ relayer.feature /\ relayer.relayer_synced = None
          => ret' = Some(Ok(<<>>))
    /\ Polled /\ ~relayer.feature
          => /\ ret' # Pending
             /\ ret' = Some(Ok(<<>>)) <=> args.da_height = 0
             /\ args.da_height > 0 => ret'.value.tag = "Err"

\* C18 as worded: with a sync handle, whenever the relayer is too far behind
\* the call returns the error "Relayer is too far out of sync" at its first
\* poll.
C18_AsStated ==
    [][/\ Polled /\ WithHandle /\ TooFarBehind
          => ret' = Some(Err("Relayer is too far out of sync"))
       /\ OtherPaths]_vars

\* C18: await_until_if_in_range never waits on a relayer that is too far
\* behind. With the feature and a sync handle, whenever da_height minus the
\* finalized DA height (saturating at 0) exceeds max_da_lag, the first poll
\* returns an error without suspending: "Relayer is too far out of sync" when
\* get_finalized_da_height gave the height, and the error of
\* get_finalized_da_height when it gave none. Otherwise the call returns Ok
\* only after the relayer has synced to at least da_height. With no sync
\* handle it returns Ok at once. Without the feature it returns Ok exactly
\* when da_height is 0 and an error for every da_height above 0.
C18_InRange ==
    [][/\ Polled /\ WithHandle /\ TooFarBehind
          => \E current_height \in get_finalized_da_height(relayer) :
                ret' = Some(IF current_height.tag = "Err" THEN current_height
                            ELSE Err("Relayer is too far out of sync"))
       /\ OtherPaths]_vars

\* A call with a sync handle was refused for a relayer too far behind, and
\* the relayer has still not synced to the height of the call.
C18_Witness ==
    /\ WithHandle
    /\ TooFarBehind
    /\ ~SyncedToHeight
    /\ ret = Some(Err("Relayer is too far out of sync"))

====
